---- MODULE Spec2Model ----
(***************************************************************************)
(* A model of Gestor.py: the GestorCompras ledger (load_data, save_data,   *)
(* extract_text_from_ticket, parse_ticket_info, add_purchase, get_stats)   *)
(* and the TelegramBot handlers that drive it.                             *)
(*                                                                         *)
(* Python values are tagged records, so that None, an int, a float and a   *)
(* str are different values: [t |-> "None"], [t |-> "int", v |-> n],       *)
(* [t |-> "float", v |-> c], [t |-> "str", v |-> s].  A float is held in   *)
(* fixed point, c hundredths; the texts the model uses carry at most two   *)
(* decimals.                                                               *)
(***************************************************************************)
EXTENDS Integers, Sequences, FiniteSets, Bags, TLC

VARIABLES
    reader,     \* GestorCompras.reader: "ok" (an easyocr.Reader) or "None"
    data,       \* GestorCompras.data['compras'], or Unset when __init__ never assigned it
    file,       \* compras.json on disk
    clock,      \* datetime.now(), in seconds
    last,       \* the last operation that ended and what its caller observed
    slots       \* the bag of handle_photo coroutines, each suspended at an await

vars == <<reader, data, file, clock, last, slots>>

----------------------------------------------------------------------------
(* Bounds of the model *)

MaxCompras == 6
MaxClock == 1
MaxPhotos == 2
NumSlots == 2

----------------------------------------------------------------------------
(* Python values *)

PyNone == [t |-> "None"]
PyStr(s) == [t |-> "str", v |-> s]
PyInt(n) == [t |-> "int", v |-> n]
PyFloat(c) == [t |-> "float", v |-> c]

\* bool(x) for the values the program tests: None, '' and 0 are falsy
Truthy(x) ==
    CASE x.t = "None" -> FALSE
      [] x.t = "str" -> x.v # ""
      [] OTHER -> x.v # 0

\* The number a Python int or float stands for, in hundredths
Hundredths(x) == IF x.t = "int" THEN x.v * 100 ELSE x.v

Digits == "0123456789"

CharAt(s, i) == SubSeq(s, i, i)

RECURSIVE IndexOf(_, _, _)
\* s.find(c, from) for a one-character c, 1-based; 0 when absent
IndexOf(s, c, from) ==
    IF from > Len(s) THEN 0
    ELSE IF CharAt(s, from) = c THEN from
    ELSE IndexOf(s, c, from + 1)

IsDigit(c) == IndexOf(Digits, c, 1) # 0

DigitVal(c) == IndexOf(Digits, c, 1) - 1

RECURSIVE AllDigits(_)
AllDigits(s) == s = "" \/ (IsDigit(Head(s)) /\ AllDigits(Tail(s)))

RECURSIVE ParseInt(_)
\* int(s) for a string of decimal digits
ParseInt(s) ==
    IF s = "" THEN 0
    ELSE ParseInt(SubSeq(s, 1, Len(s) - 1)) * 10 + DigitVal(CharAt(s, Len(s)))

\* Whether float(s) accepts s: digits with at most one point and at least one
\* digit.  (Signs, exponents, blanks, "inf" and "nan" are outside the inputs
\* the model draws.)
IsFloatLiteral(s) ==
    LET p == IndexOf(s, ".", 1) IN
    IF p = 0 THEN s # "" /\ AllDigits(s)
    ELSE /\ AllDigits(SubSeq(s, 1, p - 1))
         /\ AllDigits(SubSeq(s, p + 1, Len(s)))
         /\ Len(s) > 1

\* float(s) in hundredths, for a literal float(s) accepts
ParseFloat(s) ==
    LET p == IndexOf(s, ".", 1)
        ip == IF p = 0 THEN s ELSE SubSeq(s, 1, p - 1)
        fp == IF p = 0 THEN "" ELSE SubSeq(s, p + 1, Len(s))
        f2 == SubSeq(fp \o "00", 1, 2)
    IN ParseInt(ip) * 100 + ParseInt(f2)

\* repr(x) of a float held in hundredths: 1050 -> "10.5", 700 -> "7.0", 5 -> "0.05"
FloatRepr(c) ==
    LET f == c % 100 IN
    ToString(c \div 100) \o "." \o
        (IF f % 10 = 0 THEN ToString(f \div 10)
         ELSE IF f < 10 THEN "0" \o ToString(f)
         ELSE ToString(f))

----------------------------------------------------------------------------
(* json.dump / json.load of the values a compra holds.  A scalar is written  *)
(* as the literal JSON gives it: null, a number with or without a point, a   *)
(* string between quotes.  The escapes inside a string, which json undoes as *)
(* it reads, are left out: the body of a string literal is the string.       *)

\* json.dump with a float written through int(): 10.5 becomes 10
JsonDumpValueTruncating(x) ==
    CASE x.t = "None" -> "null"
      [] x.t = "str" -> "\"" \o x.v \o "\""
      [] x.t = "int" -> ToString(x.v)
      [] x.t = "float" -> ToString(x.v \div 100)

\* The JSON literal json.dump writes for a scalar
JsonDumpValue(x) ==
    CASE x.t = "None" -> "null"
      [] x.t = "str" -> "\"" \o x.v \o "\""
      [] x.t = "int" -> ToString(x.v)
      [] x.t = "float" -> FloatRepr(x.v)

\* The Python value json.load reads from a scalar literal
JsonLoadValue(lit) ==
    IF lit = "null" THEN PyNone
    ELSE IF Head(lit) = "\"" THEN PyStr(SubSeq(lit, 2, Len(lit) - 1))
    ELSE IF IndexOf(lit, ".", 1) # 0 THEN PyFloat(ParseFloat(lit))
    ELSE PyInt(ParseInt(lit))

ScalarKeys == {"id", "fecha_compra", "hora_compra", "establecimiento", "total",
               "imagen_ticket", "fecha_registro"}

\* One compra as the JSON object of the file: a literal per scalar key, and the
\* productos array
JsonDumpCompra(c) ==
    [k \in ScalarKeys \cup {"productos"} |->
        IF k = "productos" THEN c.productos ELSE JsonDumpValue(c[k])]

JsonLoadCompra(o) ==
    [k \in ScalarKeys \cup {"productos"} |->
        IF k = "productos" THEN o.productos ELSE JsonLoadValue(o[k])]

\* json.dump(self.data, f): the document {"compras": [...]}
JsonDump(d) == [kind |-> "json", compras |-> [i \in 1..Len(d) |-> JsonDumpCompra(d[i])]]

\* json.load(f)['compras'] of a well-formed document
JsonLoad(f) == [i \in 1..Len(f.compras) |-> JsonLoadCompra(f.compras[i])]

FileMissing == [kind |-> "missing"]
\* A file cut short by a write that failed: not a JSON document
FileCorrupt == [kind |-> "corrupt"]

----------------------------------------------------------------------------
(* GestorCompras *)

\* self.data was never assigned: __init__ gave up before load_data
Unset == [kind |-> "unset"]
Loaded(d) == [kind |-> "loaded", compras |-> d]

HasData == data.kind = "loaded"
Compras == IF HasData THEN data.compras ELSE << >>

\* load_data: the whole file, the empty ledger when it is missing or unreadable
load_data(f) ==
    IF f.kind = "json" THEN JsonLoad(f) ELSE << >>

\* save_data called before the append: the file misses the newest compra
save_data_before_append(d, f, outcome) ==
    CASE outcome = "ok" -> JsonDump(SubSeq(d, 1, Len(d) - 1))
      [] outcome = "open_failed" -> f
      [] outcome = "write_failed" -> FileCorrupt

\* The file after save_data, by how the write went: "ok", "open_failed" (the
\* file is left as it was) or "write_failed" (opened for writing, so truncated,
\* and not completed)
save_data(d, f, outcome) ==
    CASE outcome = "ok" -> JsonDump(d)
      [] outcome = "open_failed" -> f
      [] outcome = "write_failed" -> FileCorrupt

SaveOutcomes == {"ok", "open_failed", "write_failed"}

\* datetime.now().strftime(...): one string per second
Strftime(t) == "2024-01-01 00:00:0" \o ToString(t)

\* The id taken as len(compras), without the + 1
NewCompraZeroBased(d, info, image_path, now) ==
    [id |-> PyInt(Len(d)),
     fecha_compra |-> info.fecha,
     hora_compra |-> info.hora,
     establecimiento |-> info.establecimiento,
     total |-> IF Truthy(info.total) THEN PyFloat(ParseFloat(info.total.v)) ELSE PyInt(0),
     productos |-> info.productos,
     imagen_ticket |-> PyStr(image_path),
     fecha_registro |-> PyStr(Strftime(now))]

\* The dict add_purchase builds, or a raise (float() of a non-numeric total, or
\* self.data missing)
NewCompra(d, info, image_path, now) ==
    [id |-> PyInt(Len(d) + 1),
     fecha_compra |-> info.fecha,
     hora_compra |-> info.hora,
     establecimiento |-> info.establecimiento,
     total |-> IF Truthy(info.total) THEN PyFloat(ParseFloat(info.total.v)) ELSE PyInt(0),
     productos |-> info.productos,
     imagen_ticket |-> PyStr(image_path),
     fecha_registro |-> PyStr(Strftime(now))]

NewCompraRaises(info) == Truthy(info.total) /\ ~IsFloatLiteral(info.total.v)

\* add_purchase putting the new compra first: compras.insert(0, compra)
add_purchase_prepending(dt, f, info, image_path, now, outcome) ==
    IF dt.kind # "loaded" \/ NewCompraRaises(info)
    THEN [data |-> dt, file |-> f, ret |-> PyNone, log |-> 1, save |-> "none"]
    ELSE LET compra == NewCompra(dt.compras, info, image_path, now)
             d2 == <<compra>> \o dt.compras
         IN [data |-> Loaded(d2),
             file |-> save_data(d2, f, outcome),
             ret |-> compra,
             log |-> IF outcome = "ok" THEN 0 ELSE 1,
             save |-> outcome]

\* add_purchase reading the ledger back from the file before it appends
add_purchase_reloading(dt, f, info, image_path, now, outcome) ==
    IF dt.kind # "loaded" \/ NewCompraRaises(info)
    THEN [data |-> dt, file |-> f, ret |-> PyNone, log |-> 1, save |-> "none"]
    ELSE LET compra == NewCompra(load_data(f), info, image_path, now)
             d2 == Append(load_data(f), compra)
         IN [data |-> Loaded(d2),
             file |-> save_data(d2, f, outcome),
             ret |-> compra,
             log |-> IF outcome = "ok" THEN 0 ELSE 1,
             save |-> outcome]

\* add_purchase: what it leaves in self.data and in the file, what it returns
\* and how many errors it logs.  Any exception inside (self.data missing,
\* float() refusing the total) is caught: logged, and None returned.
add_purchase(dt, f, info, image_path, now, outcome) ==
    IF dt.kind # "loaded" \/ NewCompraRaises(info)
    THEN [data |-> dt, file |-> f, ret |-> PyNone, log |-> 1, save |-> "none"]
    ELSE LET compra == NewCompra(dt.compras, info, image_path, now)
             d2 == Append(dt.compras, compra)
         IN [data |-> Loaded(d2),
             file |-> save_data(d2, f, outcome),
             ret |-> compra,
             log |-> IF outcome = "ok" THEN 0 ELSE 1,
             save |-> outcome]

RECURSIVE SumTotals(_)
\* sum(compra['total'] for compra in compras), in hundredths
SumTotals(d) ==
    IF d = << >> THEN 0 ELSE Hundredths(d[1].total) + SumTotals(Tail(d))

RECURSIVE Gcd(_, _)
Gcd(a, b) == IF b = 0 THEN a ELSE Gcd(b, a % b)

\* a / b of two numbers (a in hundredths): the float, held as a reduced fraction
\* of hundredths
TrueDiv(a, b) ==
    LET g == IF a = 0 THEN b ELSE Gcd(a, b) IN
    [t |-> "float", num |-> a \div g, den |-> b \div g]

\* [compra['establecimiento'] for compra in compras if compra['establecimiento']]
Establecimientos(d) ==
    LET keep == {i \in 1..Len(d) : Truthy(d[i].establecimiento)}
        F[i \in 0..Len(d)] ==
            IF i = 0 THEN << >>
            ELSE IF i \in keep THEN Append(F[i - 1], d[i].establecimiento) ELSE F[i - 1]
    IN F[Len(d)]

\* list.count
Count(l, x) == Cardinality({i \in 1..Len(l) : l[i] = x})

\* max(set(l), key=l.count) returns the first element of maximal count in the
\* iteration order of the set, which for strings follows their per-process
\* hashes: any element of maximal count can be the one returned
MaxByCount(l) ==
    {x \in {l[i] : i \in 1..Len(l)} : \A j \in 1..Len(l) : Count(l, l[j]) <= Count(l, x)}

\* The sum taken over int(total): the cents are lost
GastoTotalOfInts(d) == PyInt(SumTotals(d) \div 100)

\* gasto_total keeps the type sum() gives it: an int while every total is the
\* int 0, a float as soon as one total is a float
GastoTotal(d) ==
    IF \A i \in 1..Len(d) : d[i].total.t = "int"
    THEN PyInt(SumTotals(d) \div 100)
    ELSE PyFloat(SumTotals(d))

\* get_stats: the values it can return.  None without compras, and None when
\* self.data is missing (the AttributeError is caught and logged).
get_stats(dt) ==
    IF dt.kind # "loaded" \/ dt.compras = << >> THEN {PyNone}
    ELSE LET d == dt.compras
             est == Establecimientos(d)
             freq == IF est # << >> THEN MaxByCount(est) ELSE {PyStr("N/A")}
         IN {[t |-> "dict",
              total_compras |-> PyInt(Len(d)),
              gasto_total |-> GastoTotal(d),
              compra_promedio |-> TrueDiv(SumTotals(d), Len(d)),
              establecimiento_frecuente |-> e] : e \in freq}

RecentN == 5

\* l[:n], the first n instead of the last
FirstN(l, n) == SubSeq(l, 1, IF Len(l) > n THEN n ELSE Len(l))

\* l[-n:] for n > 0
LastN(l, n) == SubSeq(l, IF Len(l) > n THEN Len(l) - n + 1 ELSE 1, Len(l))

----------------------------------------------------------------------------
(* Strings and re.search *)

Upper == "ABCDEFGHIJKLMNOPQRSTUVWXYZ"
LowerLetters == "abcdefghijklmnopqrstuvwxyz"

RECURSIVE Lower(_)
\* str.lower, one half of the string after the other
Lower(s) ==
    IF s = "" THEN ""
    ELSE IF Len(s) = 1
         THEN LET i == IndexOf(Upper, s, 1) IN
              IF i = 0 THEN s ELSE CharAt(LowerLetters, i)
         ELSE Lower(SubSeq(s, 1, Len(s) \div 2))
                 \o Lower(SubSeq(s, Len(s) \div 2 + 1, Len(s)))

RECURSIVE ReplaceChar(_, _, _)
\* str.replace for one-character strings, one half of the string after the other
ReplaceChar(s, a, b) ==
    IF s = "" THEN ""
    ELSE IF Len(s) = 1 THEN (IF s = a THEN b ELSE s)
         ELSE ReplaceChar(SubSeq(s, 1, Len(s) \div 2), a, b)
                 \o ReplaceChar(SubSeq(s, Len(s) \div 2 + 1, Len(s)), a, b)

\* Whether sub stands in s at position i or later
ContainsFrom(s, sub, i) ==
    \E j \in i..(Len(s) - Len(sub) + 1) : SubSeq(s, j, j + Len(sub) - 1) = sub

\* sub in s
Contains(s, sub) == ContainsFrom(s, sub, 1)

Whitespace == " \t\n\r\f"

RECURSIVE LStrip(_)
LStrip(s) ==
    IF s # "" /\ IndexOf(Whitespace, Head(s), 1) # 0 THEN LStrip(Tail(s)) ELSE s

RECURSIVE RStrip(_)
RStrip(s) ==
    IF s # "" /\ IndexOf(Whitespace, CharAt(s, Len(s)), 1) # 0
    THEN RStrip(SubSeq(s, 1, Len(s) - 1)) ELSE s

\* str.strip
Strip(s) == RStrip(LStrip(s))

RECURSIVE Split(_, _)
\* s.split(c) for a one-character c
Split(s, c) ==
    LET at == {i \in 1..Len(s) : CharAt(s, i) = c}
        p == IF at = {} THEN 0 ELSE CHOOSE i \in at : \A j \in at : i <= j
    IN IF p = 0 THEN <<s>>
       ELSE <<SubSeq(s, 1, p - 1)>> \o Split(SubSeq(s, p + 1, Len(s)), c)

RECURSIVE Join(_, _)
\* sep.join(l)
Join(l, sep) ==
    IF l = << >> THEN ""
    ELSE IF Len(l) = 1 THEN l[1]
    ELSE l[1] \o sep \o Join(Tail(l), sep)

\* A pattern is a sequence of items, each a character class (the string of its
\* members) repeated min..max times, greedily
Item(cls, min, max) == [cls |-> cls, min |-> min, max |-> max]
Unbounded == 1000

RECURSIVE Lit(_)
\* The items of a literal word
Lit(w) == IF w = "" THEN << >> ELSE <<Item(Head(w), 1, 1)>> \o Lit(Tail(w))

RECURSIVE Run(_, _, _, _)
\* How many characters of cls follow position pos, up to max
Run(cls, s, pos, max) ==
    IF max = 0 \/ pos > Len(s) \/ IndexOf(cls, CharAt(s, pos), 1) = 0 THEN 0
    ELSE 1 + Run(cls, s, pos + 1, max - 1)

RECURSIVE Match(_, _, _, _)
RECURSIVE Try(_, _, _, _, _)
\* Item k taking n characters at pos, then n - 1, ... down to its minimum: the
\* first count from which the rest of the pattern matches
Try(items, k, s, pos, n) ==
    IF n < items[k].min THEN << >>
    ELSE LET r == Match(items, k + 1, s, pos + n) IN
         IF r # << >> THEN <<pos>> \o r ELSE Try(items, k, s, pos, n - 1)

\* The match of items k.. at pos: where each item starts and where the match
\* ends; << >> when there is none
Match(items, k, s, pos) ==
    IF k > Len(items) THEN <<pos>>
    ELSE Try(items, k, s, pos, Run(items[k].cls, s, pos, items[k].max))

RECURSIVE SearchBetween(_, _, _, _)
\* The match at the first of the positions lo..hi that has one, the lower half
\* of the positions tried before the upper half
SearchBetween(items, s, lo, hi) ==
    IF lo > hi THEN << >>
    ELSE IF lo = hi THEN Match(items, 1, s, lo)
    ELSE LET mid == (lo + hi) \div 2
             r == SearchBetween(items, s, lo, mid)
         IN IF r # << >> THEN r ELSE SearchBetween(items, s, mid + 1, hi)

\* The leftmost match at start or later
SearchFrom(items, s, start) == SearchBetween(items, s, start, Len(s) + 1)

\* re.search(pattern, s).group(1), the group spanning items g1..g2: the
\* leftmost match; PyNone when there is no match
SearchGroup(items, g1, g2, s) ==
    LET r == SearchFrom(items, s, 1) IN
    IF r = << >> THEN PyNone ELSE PyStr(SubSeq(s, r[g1], r[g2 + 1] - 1))

Spaces == " \t\n\r\f"

\* (\d{1,2}[/-]\d{1,2}[/-]\d{2,4})
fecha_pattern ==
    <<Item(Digits, 1, 2), Item("/-", 1, 1), Item(Digits, 1, 2), Item("/-", 1, 1),
      Item(Digits, 2, 4)>>

\* (\d{1,2}:\d{2})
hora_pattern == <<Item(Digits, 1, 2), Item(":", 1, 1), Item(Digits, 2, 2)>>

\* [\s:]*\$?\s*
Sep == <<Item(Spaces \o ":", 0, Unbounded), Item("$", 0, 1), Item(Spaces, 0, Unbounded)>>

\* (\d+[.,]\d+)
Decimal == <<Item(Digits, 1, Unbounded), Item(".,", 1, 1), Item(Digits, 1, Unbounded)>>

\* total_patterns, each with the items its group spans
total_patterns ==
    <<[items |-> Lit("total") \o Sep \o Decimal, g1 |-> 9, g2 |-> 11],
      [items |-> Lit("total") \o Sep \o <<Item(Digits, 1, Unbounded)>>, g1 |-> 9, g2 |-> 9],
      [items |-> Lit("importe") \o Sep \o Decimal, g1 |-> 11, g2 |-> 13],
      [items |-> <<Item("$€", 1, 1), Item(Spaces, 0, Unbounded)>> \o Decimal,
       g1 |-> 3, g2 |-> 5],
      [items |-> Lit("final") \o Sep \o Decimal, g1 |-> 9, g2 |-> 11]>>

RECURSIVE FirstTotalCased(_, _)
\* The loop searching the text as it is, not lowercased
FirstTotalCased(k, text) ==
    IF k > Len(total_patterns) THEN PyNone
    ELSE LET p == total_patterns[k]
             m == SearchGroup(p.items, p.g1, p.g2, text)
         IN IF m # PyNone THEN PyStr(ReplaceChar(m.v, ",", "."))
            ELSE FirstTotalCased(k + 1, text)

RECURSIVE FirstTotal(_, _)
\* The loop over total_patterns from pattern k: the first that matches sets the
\* total, with its comma replaced, and breaks
FirstTotal(k, text) ==
    IF k > Len(total_patterns) THEN PyNone
    ELSE LET p == total_patterns[k]
             m == SearchGroup(p.items, p.g1, p.g2, Lower(text))
         IN IF m # PyNone THEN PyStr(ReplaceChar(m.v, ",", ".")) ELSE FirstTotal(k + 1, text)

VendorStopWords == {"total", "fecha", "hora", "ticket"}
VendorLines == 3
VendorMinLen == 5
VendorMaxLen == 50

\* s[:n]
Prefix(s, n) == SubSeq(s, 1, IF Len(s) < n THEN Len(s) ELSE n)

RECURSIVE FirstVendorAllLines(_, _)
\* The loop over lines, not lines[:3]
FirstVendorAllLines(k, lines) ==
    IF k > Len(lines) THEN PyNone
    ELSE IF /\ Len(Strip(lines[k])) > VendorMinLen
            /\ ~\E w \in VendorStopWords : Contains(Lower(lines[k]), w)
         THEN PyStr(Prefix(Strip(lines[k]), VendorMaxLen))
         ELSE FirstVendorAllLines(k + 1, lines)

RECURSIVE FirstVendor(_, _)
\* The loop over lines[:3] from line k
FirstVendor(k, lines) ==
    IF k > Len(lines) \/ k > VendorLines THEN PyNone
    ELSE IF /\ Len(Strip(lines[k])) > VendorMinLen
            /\ ~\E w \in VendorStopWords : Contains(Lower(lines[k]), w)
         THEN PyStr(Prefix(Strip(lines[k]), VendorMaxLen))
         ELSE FirstVendor(k + 1, lines)

\* parse_ticket_info
parse_ticket_info(text) ==
    [fecha |-> SearchGroup(fecha_pattern, 1, 5, text),
     hora |-> SearchGroup(hora_pattern, 1, 3, text),
     total |-> FirstTotal(1, text),
     establecimiento |-> FirstVendor(1, Split(text, "\n")),
     productos |-> << >>]

----------------------------------------------------------------------------
(* The recognizer *)

\* What cv2.imread and reader.readtext make of a downloaded image: not an
\* image, an image the engine fails on, or the fragments it reads
Image(kind, frags, msg) == [kind |-> kind, frags |-> frags, msg |-> msg]

OcrFragments ==
    {<<"Mercadona S.A.", "12/05/2024 10:30", "TOTAL: 10,50">>,
     <<"Carrefour", "$ 7,25">>,
     <<"Error 404">>}

Images ==
    {Image("undecodable", << >>, ""), Image("engine_error", << >>, "CUDA")}
        \cup {Image("text", f, "") : f \in OcrFragments}

\* extract_text_from_ticket: the text it returns and the errors it logs
extract_text_from_ticket(rd, img) ==
    IF rd = "None" THEN [text |-> "Error: OCR no inicializado", log |-> 0]
    ELSE IF img.kind = "undecodable" THEN [text |-> "Error procesando imagen", log |-> 1]
    ELSE IF img.kind = "engine_error" THEN [text |-> "Error en OCR: " \o img.msg, log |-> 1]
    ELSE [text |-> Join(img.frags, " "), log |-> 0]

\* The test written as text == "Error"
IsOcrErrorExact(text) == text = "Error"

\* handle_photo's test of the text: "Error" in text
IsOcrError(text) == Contains(text, "Error")

----------------------------------------------------------------------------
(* The process *)

Readers == {"ok", "None"}

\* GestorCompras.__init__ with initialize_easyocr succeeding or raising: when
\* it raises, data_file and data are never assigned
Construct(rd, f) ==
    [reader |-> rd,
     data |-> IF rd = "ok" THEN Loaded(load_data(f)) ELSE Unset]

Users == {1, 2}
ALLOWED_USERS == {1}

\* A gate that lets every user in
AllowedAnyUser(u) == u \in Users

\* The gate of handle_photo, stats and list_compras: user_id in ALLOWED_USERS
Allowed(u) == u \in ALLOWED_USERS

Init ==
    /\ \E rd \in Readers :
         LET g == Construct(rd, FileMissing) IN
         /\ reader = g.reader
         /\ data = g.data
    /\ file = FileMissing
    /\ clock = 0
    /\ last = [op |-> "init"]
    /\ slots = EmptyBag

\* The process is started again: main() builds a new GestorCompras from the
\* file as it is; the coroutines of the old process are gone
Restart ==
    \E rd \in Readers :
        LET g == Construct(rd, file) IN
        /\ reader' = g.reader
        /\ data' = g.data
        /\ last' = [op |-> "init"]
        /\ slots' = EmptyBag
        /\ UNCHANGED <<file, clock>>

\* Time passes
Tick ==
    /\ clock < MaxClock
    /\ clock' = clock + 1
    /\ UNCHANGED <<reader, data, file, last, slots>>

----------------------------------------------------------------------------
(* TelegramBot.stats and TelegramBot.list_compras: each runs to its only     *)
(* await, the reply that ends it                                            *)

stats(u) ==
    /\ IF ~Allowed(u)
       THEN last' = [op |-> "stats", user |-> u, reply |-> "denied", ret |-> PyNone]
       ELSE \E st \in get_stats(data) :
                last' = [op |-> "stats", user |-> u, ret |-> st,
                         reply |-> IF st = PyNone THEN "no_compras" ELSE "stats_text"]
    /\ UNCHANGED <<reader, data, file, clock, slots>>

\* self.gestor.data['compras'][-5:]
Recent(d) == LastN(d, RecentN)

\* The three values of a compra the listing shows
Shown(c) == <<c.establecimiento, c.fecha_compra, c.total>>

list_compras(u) ==
    /\ last' =
         IF ~Allowed(u)
         THEN [op |-> "list_compras", user |-> u, reply |-> "denied", compras |-> << >>,
               text |-> << >>]
         ELSE IF ~HasData
         \* AttributeError: nothing catches it, no reply is sent
         THEN [op |-> "list_compras", user |-> u, reply |-> "raised", compras |-> << >>,
               text |-> << >>]
         ELSE LET compras == Recent(data.compras) IN
              [op |-> "list_compras", user |-> u,
               reply |-> IF compras = << >> THEN "no_compras" ELSE "compras_text",
               compras |-> compras,
               text |-> [i \in 1..Len(compras) |-> Shown(compras[i])]]
    /\ UNCHANGED <<reader, data, file, clock, slots>>

----------------------------------------------------------------------------
(* A caller of GestorCompras.add_purchase with any ReceiptFields *)

ReceiptFields(fecha, hora, total, est) ==
    [fecha |-> fecha, hora |-> hora, total |-> total, establecimiento |-> est,
     productos |-> << >>]

ReceiptInputs ==
    <<ReceiptFields(PyStr("12/05/2024"), PyStr("10:30"), PyStr("10.50"), PyStr("Mercadona")),
      ReceiptFields(PyNone, PyNone, PyStr("7"), PyStr("Carrefour")),
      ReceiptFields(PyNone, PyNone, PyNone, PyNone),
      ReceiptFields(PyNone, PyNone, PyStr("abc"), PyStr("Mercadona"))>>

\* What the caller of add_purchase has seen when it returns
Added(info, r) ==
    [op |-> "add_purchase", info |-> info, ret |-> r.ret, save |-> r.save, log |-> r.log]

AddPurchase ==
    \E i \in 1..Len(ReceiptInputs), outcome \in SaveOutcomes :
        LET info == ReceiptInputs[i]
            r == add_purchase(data, file, info, "ticket_temp.jpg", clock, outcome)
        IN /\ Len(Compras) < MaxCompras
           \* the write is reached only when the compra was built
           /\ r.save = "none" => outcome = "ok"
           /\ data' = r.data
           /\ file' = r.file
           /\ last' = Added(info, r)
           /\ UNCHANGED <<reader, clock, slots>>

\* The ledger as an authorised caller drives it
NextGestor ==
    \/ AddPurchase
    \/ \E u \in ALLOWED_USERS : stats(u)
    \/ \E u \in ALLOWED_USERS : list_compras(u)
    \/ Restart

SpecGestor == Init /\ [][NextGestor]_vars

----------------------------------------------------------------------------
(* TelegramBot.handle_photo, one action per stretch between two awaits.  An  *)
(* await either returns ("ok") or raises ("raise": the network, Telegram).  *)
(* The coroutines in flight have no names: slots is the bag of them.        *)

AwaitOutcomes == {"ok", "raise"}

\* A handle_photo coroutine: the user whose photo it handles, the await it is
\* suspended at, its temporary file ("none", "exists", "removed"), the replies
\* awaited so far ("lost" for one whose await raised) and, while the
\* reply that follows recognition is awaited, how recognition went ("uninit",
\* "undecodable", "engine_error", "text"; "none" before and after)
Coroutine(user, pc, tmp, replies, ocr) ==
    [user |-> user, pc |-> pc, tmp |-> tmp, replies |-> replies, ocr |-> ocr]

\* Coroutine c goes on to its next await as c2
Step(c, c2) == slots' = (slots (-) SetToBag({c})) (+) SetToBag({c2})

\* Coroutine c ends: what its caller has seen
Finish(c, replies, tmp) ==
    /\ slots' = slots (-) SetToBag({c})
    /\ last' = [op |-> "handle_photo", user |-> c.user, replies |-> replies, tmp |-> tmp]

Delivered(c, o, reply) == Append(c.replies, IF o = "ok" THEN reply ELSE "lost")

\* parse_ticket_info of the texts the recognizer can return, computed once
ParsedTexts ==
    {<<Join(f, " "), parse_ticket_info(Join(f, " "))>> : f \in OcrFragments}

Parsed(text) ==
    IF \E p \in ParsedTexts : p[1] = text
    THEN (CHOOSE p \in ParsedTexts : p[1] = text)[2]
    ELSE parse_ticket_info(text)

\* The coroutines past the access gate
InFlight ==
    BagCardinality([c \in {x \in BagToSet(slots) : x.pc # "w_denied"} |-> slots[c]])

\* Entry: the access gate, then the first reply is awaited
handle_photo_start(u) ==
    /\ BagCardinality(slots) < NumSlots
    /\ Allowed(u) => Len(Compras) + InFlight < MaxPhotos
    /\ slots' = slots (+) SetToBag({Coroutine(u, IF Allowed(u) THEN "w_procesando"
                                                 ELSE "w_denied", "none", << >>, "none")})
    /\ UNCHANGED <<reader, data, file, clock, last>>

\* "No tienes acceso." was awaited: return
handle_photo_denied(c, o) ==
    /\ c.pc = "w_denied"
    /\ Finish(c, Delivered(c, o, "denied"), c.tmp)
    /\ UNCHANGED <<reader, data, file, clock>>

\* "Procesando ticket..." was awaited, outside the try: a raise ends the
\* handler; otherwise get_file is awaited
handle_photo_procesando(c, o) ==
    /\ c.pc = "w_procesando"
    /\ IF o = "ok"
       THEN /\ Step(c, [c EXCEPT !.pc = "w_get_file",
                                 !.replies = Delivered(c, o, "procesando")])
            /\ UNCHANGED last
       ELSE Finish(c, Delivered(c, o, "procesando"), c.tmp)
    /\ UNCHANGED <<reader, data, file, clock>>

\* get_file was awaited: the temporary file is created (delete=False) and the
\* download awaited; a raise goes to the except clause, which awaits its reply
handle_photo_get_file(c, o) ==
    /\ c.pc = "w_get_file"
    /\ Step(c, IF o = "ok" THEN [c EXCEPT !.pc = "w_download", !.tmp = "exists"]
               ELSE [c EXCEPT !.pc = "w_reply_exc"])
    /\ UNCHANGED <<reader, data, file, clock, last>>

\* The download raised
handle_photo_download_raise(c) ==
    /\ c.pc = "w_download"
    /\ Step(c, [c EXCEPT !.pc = "w_reply_exc"])
    /\ UNCHANGED <<reader, data, file, clock, last>>

\* The download returned: extract_text_from_ticket, the test for "Error",
\* parse_ticket_info and add_purchase run without an await between them, up to
\* the reply that is awaited next
handle_photo_download(c, img, outcome) ==
    LET ocr == extract_text_from_ticket(reader, img)
        how == IF reader = "None" THEN "uninit" ELSE img.kind
        info == Parsed(ocr.text)
        r == add_purchase(data, file, info, "ticket_temp.jpg", clock, outcome)
    IN /\ c.pc = "w_download"
       /\ IF IsOcrError(ocr.text)
          THEN /\ outcome = "ok"
               /\ Step(c, [c EXCEPT !.pc = "w_reply_ocr_err", !.ocr = how])
               /\ UNCHANGED <<data, file, last>>
          ELSE /\ r.save = "none" => outcome = "ok"
               /\ Step(c, [c EXCEPT !.pc = "w_reply_ok", !.ocr = how])
               /\ data' = r.data
               /\ file' = r.file
               /\ last' = Added(info, r)
       /\ UNCHANGED <<reader, clock>>

\* "Error procesando imagen..." was awaited: return; a raise goes to the
\* except clause
handle_photo_reply_ocr_err(c, o) ==
    /\ c.pc = "w_reply_ocr_err"
    /\ IF o = "ok"
       THEN Finish(c, Delivered(c, o, "ocr_error"), c.tmp)
       ELSE /\ Step(c, [c EXCEPT !.pc = "w_reply_exc", !.ocr = "none",
                                 !.replies = Delivered(c, o, "ocr_error")])
            /\ UNCHANGED last
    /\ UNCHANGED <<reader, data, file, clock>>

\* The summary was awaited: os.unlink removes the temporary file, or raises
\* (it cannot remove it); a raise of either goes to the except clause
handle_photo_reply_ok(c, o, unlink) ==
    /\ c.pc = "w_reply_ok"
    /\ o = "raise" => unlink = "ok"
    /\ IF o = "ok" /\ unlink = "ok"
       THEN Finish(c, Delivered(c, o, "success"), "removed")
       ELSE /\ Step(c, [c EXCEPT !.pc = "w_reply_exc", !.ocr = "none",
                                 !.replies = Delivered(c, o, "success")])
            /\ UNCHANGED last
    /\ UNCHANGED <<reader, data, file, clock>>

\* The except clause's "Error procesando ticket..." was awaited: the handler
\* ends, by returning or by the raise
handle_photo_reply_exc(c, o) ==
    /\ c.pc = "w_reply_exc"
    /\ Finish(c, Delivered(c, o, "exc_error"), c.tmp)
    /\ UNCHANGED <<reader, data, file, clock>>

Next ==
    \/ \E u \in Users : handle_photo_start(u)
    \/ \E c \in BagToSet(slots), o \in AwaitOutcomes : handle_photo_denied(c, o)
    \/ \E c \in BagToSet(slots), o \in AwaitOutcomes : handle_photo_procesando(c, o)
    \/ \E c \in BagToSet(slots), o \in AwaitOutcomes : handle_photo_get_file(c, o)
    \/ \E c \in BagToSet(slots) : handle_photo_download_raise(c)
    \/ \E c \in BagToSet(slots), img \in Images, outcome \in SaveOutcomes :
          handle_photo_download(c, img, outcome)
    \/ \E c \in BagToSet(slots), o \in AwaitOutcomes : handle_photo_reply_ocr_err(c, o)
    \/ \E c \in BagToSet(slots), o \in AwaitOutcomes, unlink \in AwaitOutcomes :
          handle_photo_reply_ok(c, o, unlink)
    \/ \E c \in BagToSet(slots), o \in AwaitOutcomes : handle_photo_reply_exc(c, o)
    \/ \E u \in Users : stats(u)
    \/ \E u \in Users : list_compras(u)
    \/ Restart
    \/ Tick

Spec == Init /\ [][Next]_vars

----------------------------------------------------------------------------
(* A caller of GestorCompras.parse_ticket_info: the text of a ticket is      *)
(* given, and parse_ticket_info is applied to it                            *)

\* Tickets as sequences of lines
Tickets ==
    {<<"Mercadona S.A.", "Fecha 12/05/2024 Hora 10:30", "$99,00", "TOTAL: 10,50">>,
     <<"Ticket 0042", "Lidl", "Fecha 12-05-24", "Carrefour Express", "Total 12">>,
     <<"  Supermercados Unidos de la Comunidad de Madrid Sociedad Anonima  ",
       "Importe: 8,40", "final 3.20", "total: 10,50 $99,00">>,
     <<"TOTAL", "$ 7,25", "Total 12", "FINAL: 3,20">>,
     <<"HORA 10:30", "Total: abc", "€ 5,00", "Bar Pepe">>}

MaxLines == 4

\* Up to MaxLines consecutive lines of a ticket
TicketLines ==
    {SubSeq(t, i, j) : <<t, i, j>> \in
        {w \in Tickets \X (1..5) \X (1..5) :
            w[2] <= w[3] /\ w[3] <= Len(w[1]) /\ w[3] - w[2] < MaxLines}}

\* The texts given to parse_ticket_info: the lines as the recognizer joins its
\* fragments (line 99) and as a text with line breaks
TicketTexts == {Join(l, sep) : <<l, sep>> \in TicketLines \X {" ", "\n"}}

InitParser ==
    /\ reader = "ok"
    /\ data = Construct("ok", FileMissing).data
    /\ file = FileMissing
    /\ clock = 0
    /\ slots = EmptyBag
    /\ \E text \in TicketTexts : last = [op |-> "text", text |-> text]

ParseTicket ==
    /\ last.op = "text"
    /\ last' = [op |-> "parse_ticket_info", text |-> last.text,
                info |-> parse_ticket_info(last.text)]
    /\ UNCHANGED <<reader, data, file, clock, slots>>

NextParser == ParseTicket

SpecParser == InitParser /\ [][NextParser]_vars

----------------------------------------------------------------------------
(* The claims *)

Min(a, b) == IF a < b THEN a ELSE b

RECURSIVE SumFromEnd(_)
\* The sum of the totals of d, in hundredths, taken from the last record back
SumFromEnd(d) ==
    IF Len(d) = 0 THEN 0
    ELSE SumFromEnd(SubSeq(d, 1, Len(d) - 1)) + Hundredths(d[Len(d)].total)

FailureCauses == {"uninit", "undecodable", "engine_error"}

\* A step that takes a coroutine out of the download into the await of a
\* reply, recognition having gone as `how`
RecognitionStep(how) ==
    \E c \in BagToSet(slots') :
        /\ c.ocr = how
        /\ c.pc \in {"w_reply_ocr_err", "w_reply_ok"}
        /\ CopiesIn(c, slots') > CopiesIn(c, slots)

\* A step that ends a run with the reply "Error procesando imagen..."
OcrErrorReplied ==
    /\ last' # last
    /\ last'.op = "handle_photo"
    /\ \E i \in 1..Len(last'.replies) : last'.replies[i] = "ocr_error"

\* C1: a photo run in which OCR is uninitialized, the image cannot be
\* preprocessed or the recognizer raises leaves the in-memory ledger, the file
\* and the result of get_stats as they were: both the step in which recognition
\* fails and the step in which the run's error reply ends it.
C1_RecognitionFailureKeepsLedger ==
    [][((\E how \in FailureCauses : RecognitionStep(how)) \/ OcrErrorReplied)
          => /\ data' = data
             /\ file' = file
             /\ get_stats(data') = get_stats(data)]_vars

\* C1 witness: with purchases in the ledger and on disk, the recognizer has
\* raised on a photo and the run awaits its error reply
C1_Witness ==
    /\ reader = "ok"
    /\ Len(Compras) > 0
    /\ file = JsonDump(Compras)
    /\ \E c \in BagToSet(slots) : c.pc = "w_reply_ocr_err" /\ c.ocr = "engine_error"

StatsDone == last.op = "stats" /\ last.user \in ALLOWED_USERS

\* What C2 says of count, total spend and average
StatsBasics ==
    StatsDone =>
        /\ Compras = << >> => last.ret = PyNone
        /\ Compras # << >> =>
             /\ last.ret # PyNone
             /\ last.ret.total_compras = PyInt(Len(Compras))
             /\ Hundredths(last.ret.gasto_total) = SumFromEnd(Compras)
             /\ last.ret.compra_promedio.num * Len(Compras)
                    = SumFromEnd(Compras) * last.ret.compra_promedio.den
        /\ Len(Compras) = 1 =>
             /\ Hundredths(last.ret.gasto_total) = Hundredths(Compras[1].total)
             /\ last.ret.compra_promedio.num
                    = Hundredths(Compras[1].total) * last.ret.compra_promedio.den

\* C2 as stated: get_stats is absent without records; otherwise count, total
\* spend and average are those of the records, and with one record the
\* frequent vendor is that record's vendor.
C2_Original ==
    /\ StatsBasics
    /\ (StatsDone /\ Len(Compras) = 1)
          => last.ret.establecimiento_frecuente = Compras[1].establecimiento

\* C2 amended: as C2, but with one record the frequent vendor is that record's
\* vendor when it has one and 'N/A' when its vendor is unset.
C2_Stats ==
    /\ StatsBasics
    /\ (StatsDone /\ Len(Compras) = 1)
          => last.ret.establecimiento_frecuente
                = IF Truthy(Compras[1].establecimiento)
                  THEN Compras[1].establecimiento ELSE PyStr("N/A")

\* C2 witness: get_stats has answered on a ledger of one record without vendor
C2_Witness ==
    /\ StatsDone
    /\ Len(Compras) = 1
    /\ ~Truthy(Compras[1].establecimiento)
    /\ last.ret # PyNone

\* C3: saving the records and loading the file written gives back the same
\* sequence of records, every field equal, for any number of records; a missing
\* file loads as the empty ledger.
C3_RoundTrip ==
    /\ HasData => load_data(save_data(Compras, file, "ok")) = Compras
    /\ load_data(FileMissing) = << >>

\* C3 witness: the process was restarted and has loaded three records, floats,
\* ints, strings and None among their values, from the file it had saved
C3_Witness ==
    /\ last.op = "init"
    /\ Len(Compras) = 3
    /\ file = JsonDump(Compras)
    /\ {Compras[i].total.t : i \in 1..3} = {"int", "float"}
    /\ \E i \in 1..3 : Compras[i].establecimiento = PyNone

AddDone == last.op = "add_purchase" /\ last.ret # PyNone

\* C4: the k-th record has id k, and an add gives its record the id
\* (count before the add) + 1.
C4_SequentialIds ==
    /\ \A k \in 1..Len(Compras) : Compras[k].id = PyInt(k)
    /\ AddDone => /\ last.ret.id = PyInt((Len(Compras) - 1) + 1)
                  /\ Compras[Len(Compras)] = last.ret

\* C4 witness: a third record has just been added
C4_Witness == AddDone /\ Len(Compras) = 3

\* C5: when add_purchase returns and the write did not fail, the file holds
\* exactly the in-memory sequence, the new record included.
C5_AddPersists ==
    (AddDone /\ last.save = "ok") =>
        /\ file.kind = "json"
        /\ load_data(file) = Compras
        /\ Len(file.compras) = Len(Compras)
        /\ JsonLoadCompra(file.compras[Len(Compras)]) = last.ret

\* C5 witness: a second record was added and written
C5_Witness == AddDone /\ last.save = "ok" /\ Len(Compras) = 2

\* C6: when the write fails during add, the failure is logged and the caller
\* of add gets something other than what a successful add returns (the new
\* record), while the record is already in memory.
C6_SaveFailureSurfaced ==
    (last.op = "add_purchase" /\ last.save \in {"open_failed", "write_failed"}) =>
        /\ last.log > 0
        /\ Len(Compras) > 0
        /\ last.ret # Compras[Len(Compras)]

\* With the recognizer uninitialized and purchases in the file, an allowed
\* caller has asked for /stats or /compras
ReadDone ==
    /\ reader = "None"
    /\ file.kind = "json" /\ file.compras # << >>
    /\ last.op \in {"stats", "list_compras"}
    /\ last.user \in ALLOWED_USERS

\* C7: when the recognizer failed to initialize, photo requests create no
\* record, and /stats and /compras answer from the persisted data.
C7_ServesReadsWithoutRecognizer ==
    /\ reader = "None" => \A c \in BagToSet(slots) : c.pc # "w_reply_ok"
    /\ (ReadDone /\ last.op = "stats")
          => last.ret \in get_stats(Loaded(load_data(file)))
    /\ (ReadDone /\ last.op = "list_compras")
          => /\ last.reply # "raised"
             /\ last.compras = Recent(load_data(file))

ListDone == last.op = "list_compras" /\ last.user \in ALLOWED_USERS /\ HasData

\* C8: the listing returns the last min(5, count) records of the ledger in
\* insertion order and does not raise when the ledger has fewer than 5.
C8_Recent ==
    ListDone =>
        LET n == Min(RecentN, Len(Compras)) IN
        /\ last.reply # "raised"
        /\ Len(last.compras) = n
        /\ \A i \in 1..n : last.compras[i] = Compras[Len(Compras) - n + i]

\* C8 witness: the listing of a ledger of 3 records has returned those 3
C8_Witness == ListDone /\ Len(Compras) = 3 /\ last.compras = Compras

\* The vendors of maximal count, and the one of them met first
FirstSeenMode(d) ==
    LET est == Establecimientos(d)
        top == {i \in 1..Len(est) : \A j \in 1..Len(est) : Count(est, est[j]) <= Count(est, est[i])}
    IN est[CHOOSE i \in top : \A j \in top : i <= j]

\* C9: the frequent vendor is the vendor of maximal count met first in
\* insertion order.
C9_FirstSeenMode ==
    (StatsDone /\ Establecimientos(Compras) # << >>)
        => last.ret.establecimiento_frecuente = FirstSeenMode(Compras)

NonNumeric(total) == ~Truthy(total) \/ ~IsFloatLiteral(total.v)

\* C10: add_purchase with an absent or non-numeric total still appends a
\* record, with total 0.
C10_TotalCoerced ==
    (last.op = "add_purchase" /\ HasData /\ NonNumeric(last.info.total)) =>
        /\ last.ret # PyNone
        /\ Hundredths(last.ret.total) = 0
        /\ Compras # << >>
        /\ Compras[Len(Compras)] = last.ret

ParseDone == last.op = "parse_ticket_info"

\* What total_patterns[k] captures in the lowercased text, PyNone without match
TotalGroup(k, text) ==
    SearchGroup(total_patterns[k].items, total_patterns[k].g1, total_patterns[k].g2,
                Lower(text))

\* Texts and the totals the priority order gives them: "total" with decimals,
\* "total" with an integer, "importe", a currency symbol, "final"
TotalExamples ==
    {<<"total: 10,50 $99,00", "10.50">>,
     <<"$99,00 TOTAL: 10,50", "10.50">>,
     <<"$99,00\nTOTAL: 10,50", "10.50">>,
     <<"final 3.20 total: 10,50 $99,00", "10.50">>,
     <<"Importe: 8,40 final 3.20", "8.40">>,
     <<"$ 7,25 Total 12", "12">>,
     <<"Total 12 FINAL: 3,20", "12">>,
     <<"€ 5,00", "5.00">>,
     <<"FINAL: 3,20", "3.20">>}

\* C11: the total is what the first of the five patterns, in their order, that
\* matches anywhere in the lowercased text captures, its comma made a point,
\* and is unset when none matches; a text with both "total: 10,50" and "$99,00"
\* gives "10.50" wherever the two stand.
C11_TotalPriority ==
    ParseDone =>
        LET total == last.info.total
            hits == {k \in 1..5 : TotalGroup(k, last.text) # PyNone}
        IN /\ Len(total_patterns) = 5
           /\ hits = {} => total = PyNone
           /\ hits # {} =>
                LET first == CHOOSE k \in hits : \A j \in hits : k <= j IN
                /\ total = PyStr(ReplaceChar(TotalGroup(first, last.text).v, ",", "."))
                /\ ~Contains(total.v, ",")
           /\ \A e \in TotalExamples : last.text = e[1] => total = PyStr(e[2])
           /\ (Contains(Lower(last.text), "total: 10,50") /\ Contains(last.text, "$99,00"))
                 => total = PyStr("10.50")

\* C11 witness: the text with the bare "$99,00" before "TOTAL: 10,50" was parsed
C11_Witness ==
    /\ ParseDone
    /\ last.text = "$99,00 TOTAL: 10,50"
    /\ last.info.total = PyStr("10.50")

\* The first of the first 3 lines of the text that is longer than 5 characters
\* when trimmed and contains none of the words, trimmed and cut to 50
\* characters; PyNone when there is none
VendorSkipping(text, words) ==
    LET lines == Split(text, "\n")
        ok == {k \in 1..Min(3, Len(lines)) :
                  /\ Len(Strip(lines[k])) > 5
                  /\ \A w \in words : ~Contains(Lower(lines[k]), w)}
    IN IF ok = {} THEN PyNone
       ELSE LET k == CHOOSE k \in ok : \A j \in ok : k <= j
                line == Strip(lines[k])
            IN PyStr(IF Len(line) > 50 THEN SubSeq(line, 1, 50) ELSE line)

\* Texts and their vendors
VendorExamples ==
    {<<"Ticket 0042\nLidl\nFecha 12-05-24\nCarrefour Express", PyNone>>,
     <<"Lidl\nFecha 12-05-24\nCarrefour Express", PyStr("Carrefour Express")>>,
     <<"  Supermercados Unidos de la Comunidad de Madrid Sociedad Anonima  \nImporte: 8,40",
       PyStr("Supermercados Unidos de la Comunidad de Madrid Soc")>>,
     <<"HORA 10:30\nTotal: abc\n€ 5,00\nBar Pepe", PyStr("€ 5,00")>>,
     <<"Mercadona S.A. Fecha 12/05/2024 Hora 10:30", PyNone>>}

\* C12 as stated: the vendor is the first of the first 3 lines longer than 5
\* characters when trimmed that contains none of "total", "fecha", "hora", cut
\* to 50 characters, and is unset when there is no such line.
C12_Original ==
    ParseDone =>
        last.info.establecimiento = VendorSkipping(last.text, {"total", "fecha", "hora"})

\* C12 amended: as C12, the words that make a line be skipped being "total",
\* "fecha", "hora" and "ticket".
C12_Vendor ==
    ParseDone =>
        /\ last.info.establecimiento
              = VendorSkipping(last.text, {"total", "fecha", "hora", "ticket"})
        /\ \A e \in VendorExamples : last.text = e[1] => last.info.establecimiento = e[2]

\* C12 witness: a text was parsed whose first three lines are skipped, for
\* "ticket", for being short and for "fecha", and whose fourth line would do
C12_Witness ==
    /\ ParseDone
    /\ last.text = "Ticket 0042\nLidl\nFecha 12-05-24\nCarrefour Express"
    /\ last.info.establecimiento = PyNone

PhotoDone == last.op = "handle_photo"

\* C13: when handle_photo has finished, by the summary, by the return after an
\* OCR error or through the except clause, the temporary file it created is
\* no longer there.
C13_TempFileRemoved == PhotoDone => last.tmp # "exists"

\* A step in which a photo run's add_purchase has appended a record
AddStep ==
    /\ last' # last
    /\ last'.op = "add_purchase"
    /\ last'.ret # PyNone

\* C14: with photo runs interleaved at their awaits, each add is one mutation
\* of the ledger as the run finds it: it appends its record to the records
\* there are, none lost, under an id no record has; the ids stay pairwise
\* distinct; and when its write succeeds the file holds every record.
C14_AddsDoNotOverlap ==
    [][/\ AddStep =>
            /\ Compras' = Append(Compras, last'.ret)
            /\ \A i \in 1..Len(Compras) : Compras[i].id # last'.ret.id
            /\ last'.save = "ok" => load_data(file') = Compras'
       /\ \A i, j \in 1..Len(Compras') :
            i # j => Compras'[i].id # Compras'[j].id]_vars

\* C14 witness: two photo runs are in flight at once, each having added its
\* record and awaiting its summary reply, and the file holds both records
C14_Witness ==
    /\ BagCardinality(slots) = 2
    /\ \A c \in BagToSet(slots) : c.pc = "w_reply_ok"
    /\ Len(Compras) = 2
    /\ load_data(file) = Compras

\* The replies that tell the caller how the request ended: the summary or an
\* error message
OutcomeReplies == {"success", "ocr_error", "exc_error", "denied"}

\* C15: a photo request whose replies were all delivered ends with exactly one
\* outcome reply, the summary or one error message, and no reply is sent twice.
C15_OneOutcomeReply ==
    (PhotoDone /\ \A i \in 1..Len(last.replies) : last.replies[i] # "lost") =>
        /\ Cardinality({i \in 1..Len(last.replies) : last.replies[i] \in OutcomeReplies}) = 1
        /\ \A i, j \in 1..Len(last.replies) :
              i # j => last.replies[i] # last.replies[j]

\* A step in which /stats or /compras has been answered
ReadStep == last' # last /\ last'.op \in {"stats", "list_compras"}

\* C16: in every step of the running process (a restart apart) the records
\* there were keep their places and their values, and the sequence grows, by
\* one record at its end, only in a step of add_purchase; a step of /stats or
\* /compras leaves the ledger and the file as they were.
C16_AppendOnly ==
    [][\/ /\ Len(Compras') >= Len(Compras)
          /\ \A i \in 1..Len(Compras) : Compras'[i] = Compras[i]
          /\ Len(Compras') > Len(Compras) =>
                /\ AddStep
                /\ Len(Compras') = Len(Compras) + 1
                /\ Compras'[Len(Compras')] = last'.ret
          /\ ReadStep => (data' = data /\ file' = file)
       \/ Restart]_vars

\* C16 witness: with two records in the ledger and in the file, /stats has
\* been answered with their statistics
C16_Witness ==
    /\ last.op = "stats"
    /\ last.ret # PyNone
    /\ Len(Compras) = 2
    /\ load_data(file) = Compras

\* The users the access gate is to keep out
Outsiders == Users \ ALLOWED_USERS

\* A step taken for an outsider's request: a handler finishes for them, or a
\* handle_photo coroutine of theirs starts or goes on (a restart, which ends
\* every coroutine, apart)
OutsiderStep ==
    \/ /\ last' # last
       /\ last'.op \in {"handle_photo", "stats", "list_compras"}
       /\ last'.user \in Outsiders
    \/ /\ \E c \in BagToSet(slots) \cup BagToSet(slots') :
             c.user \in Outsiders /\ CopiesIn(c, slots') # CopiesIn(c, slots)
       /\ ~Restart

\* C17: a photo, /stats or /compras of a user not in ALLOWED_USERS gets no file
\* downloaded and no OCR run, leaves the ledger and the file as they were, and
\* is answered with the access-denied reply alone, nothing of the ledger in it.
C17_AccessGate ==
    [][/\ OutsiderStep => (data' = data /\ file' = file)
       /\ \A c \in BagToSet(slots') :
             c.user \in Outsiders =>
                 c = Coroutine(c.user, "w_denied", "none", << >>, "none")
       /\ (last'.op = "handle_photo" /\ last'.user \in Outsiders) =>
             /\ last'.tmp = "none"
             /\ last'.replies \in {<<"denied">>, <<"lost">>}
       /\ (last'.op = "stats" /\ last'.user \in Outsiders) =>
             /\ last'.reply = "denied"
             /\ last'.ret = PyNone
       /\ (last'.op = "list_compras" /\ last'.user \in Outsiders) =>
             /\ last'.reply = "denied"
             /\ last'.compras = << >>
             /\ last'.text = << >>]_vars

\* C17 witness: with a purchase in the ledger, a photo of a user not in
\* ALLOWED_USERS has been answered with the access-denied reply
C17_Witness ==
    /\ Compras # << >>
    /\ PhotoDone
    /\ last.user \in Outsiders
    /\ last.replies = <<"denied">>

====
